---- MODULE Spec2Model ----
(***************************************************************************)
(* Model of qsketch/sketch.py: the Sketcher coordinator (stream, pause,    *)
(* resume, stop), the sketch_worker loop run by every worker process, the  *)
(* manager dict shared by the workers of one stream, the sketcher lock and *)
(* the bounded output queue; and the on-demand computation of sketches     *)
(* (Sketcher.__call__ and sketch).                                         *)
(*                                                                         *)
(* Every call of Sketcher.stream creates a new manager dict, a new queue   *)
(* and a new lock.  They are kept in the sequences data, queues and locks, *)
(* indexed by the number of the stream() call; the coordinator's fields    *)
(* self.shared_data, self.queue and self.lock hold such an index (0 is     *)
(* None).  A worker is a separate process started with a copy of the       *)
(* Sketcher object taken when stream() started it, so it keeps the indices *)
(* of its own stream.                                                      *)
(***************************************************************************)
EXTENDS Integers, Sequences, FiniteSets, Bags, TLC

\* ---------------------------------------------------------------- bounds
MaxStreams == 2
RestartWorkers == 2
RestartSketches == 1
RestartEpochs == 1
MaxWorkers == 2
MaxSketches == 2
MaxEpochs == 2
MaxId == 2
MaxDraws == 3
MaxPauses == 1
MaxBatch == 2
MaxBatches == 2
MaxExamples == 3
MaxModules == 2
MaxCalls == 2
MaxCpus == 5

\* torch.iinfo(torch.int16).max
Int16Max == 32767

\* the capacity of an mp.Queue made with maxsize <= 0
SemValueMax == 2147483647

\* the terminator message; an item message is <<"sketch", sketch_id>>
None == <<"None">>

VARIABLES
    sketcher,   \* the coordinator's Sketcher object: queue, shared_data, lock;
                \*   history: the num_sketches its last stream() call was asked
                \*   for (0 before any call) and whether that call raised
    data,       \* data[g]: the manager dict of stream g
    queues,     \* queues[g]: the content of the mp.Queue of stream g
    locks,      \* locks[g]: the worker holding the mp.Lock of stream g, or 0
    procs,      \* procs[w]: worker process w (its position and its locals)
    trace,      \* history: trace[g] is every message ever put in queues[g],
                \*   an item as the epoch its worker claimed it in, None as -1
    picked,     \* history: picked[g] is the claims made, <<epoch, id>>, in order
    owed,       \* history: owed[g] is the bag of <<epoch, sketch_id>> drawn in a
                \*   sketch_list and not enqueued yet
    stray,      \* history: stray[g] is the bag of <<epoch, sketch_id>> enqueued
                \*   that no sketch_list owed
    count,      \* history: count[w] is what worker w did since die was set
                \*   (picks_die, puts_die) and since pause was last set and not
                \*   cleared (picks_pause, puts_pause): claims and items enqueued
    calls,      \* history: the number of pause() calls made
    sk          \* the Sketcher's default data and sample budget, and the
                \*   on-demand computation (Sketcher.__call__, sketch) under way

vars == <<sketcher, data, queues, locks, procs, trace, picked, owed, stray,
          count, calls, sk>>

\* ------------------------------------------------------------- helpers
Min(a, b) == IF a < b THEN a ELSE b

\* torch.randint(low=0, high=high): the results the model draws, the low
\* values and the largest one
RandInt(high) == IF high <= MaxId THEN 0 .. (high - 1) ELSE {0, high - 1}

\* torch.randint(low=0, high=high, size=(n,)): a list of n ids
RandList(high, n) == [1 .. n -> RandInt(high)]

Streams == 1 .. Len(data)
Workers == 1 .. Len(procs)

\* workers that share the coordinator's Sketcher object instead of a copy
sketcher_shared(w) == sketcher.shared_data

\* The stream whose record, queue and lock worker w uses: those of the
\* Sketcher copy its process was started with.
sketcher_of(w) == procs[w].sketcher

shared_data(w) == data[sketcher_of(w)]

\* a queue of one message more
maxsize_more(g) == 2 * data[g].num_workers + 1

\* mp.Queue(maxsize=2*num_workers): the capacity of the queue of stream g
maxsize(g) ==
    IF 2 * data[g].num_workers <= 0 THEN SemValueMax
    ELSE 2 * data[g].num_workers

\* the bag of the ids of a sketch_list, each with the epoch it is drawn for
RECURSIVE ListBag(_, _)
ListBag(epoch, list) ==
    IF list = << >> THEN EmptyBag
    ELSE SetToBag({<<epoch, Head(list)>>}) (+) ListBag(epoch, Tail(list))

\* an optional value: << >> is None and <<v>> is the value v
IsNone(o) == o = << >>

\* a data iterator over a source: the sizes of the batches it has still to
\* yield and the number of samples it has yielded; the samples of a source are
\* numbered from 1 in the order the iterator yields them
Iterator(batches) == [batches |-> batches, taken |-> 0]

\* Sketcher.__init__: the default data iterator and the sample budget of the
\* Sketcher (each of them possibly None), and no on-demand call made yet
Constructed(data_source, num_examples) ==
    [data_iterator |-> data_source,
     num_examples |-> num_examples,
     pc |-> "idle",
     calls |-> 0,
     given |-> FALSE,
     it |-> Iterator(<< >>),
     budget |-> << >>,
     modules |-> 0,
     iterable |-> FALSE,
     module |-> 0,
     allocated |-> FALSE,
     processed |-> << >>,
     pos |-> 0,
     start |-> 0,
     avail |-> 0,
     warned |-> FALSE,
     sketches |-> << >>,
     error |-> ""]

\* ---------------------------------------------------------------- Init
\* Sketcher.__init__: no queue and no shared data yet; the Sketcher is built
\* on a data source of one batch, with no sample budget
Init ==
    /\ sketcher = [queue |-> 0, shared_data |-> 0, lock |-> 0,
                   asked |-> 0, raised |-> FALSE,
                   num_workers |-> 0, cpu_count |-> 0]
    /\ sk = Constructed(<<Iterator(<<1>>)>>, << >>)
    /\ data = << >>
    /\ queues = << >>
    /\ locks = << >>
    /\ procs = << >>
    /\ trace = << >>
    /\ picked = << >>
    /\ owed = << >>
    /\ stray = << >>
    /\ count = << >>
    /\ calls = 0

\* --------------------------------------------------------- coordinator
\* a stop() that also resets the slot counter
stop_reset(d) ==
    IF sketcher.shared_data # 0
    THEN [d EXCEPT ![sketcher.shared_data].die = TRUE,
                   ![sketcher.shared_data].current_sketch = 0]
    ELSE d

\* Sketcher.stop, as a function of the dicts
stop(d) ==
    IF sketcher.shared_data # 0
    THEN [d EXCEPT ![sketcher.shared_data].die = TRUE]
    ELSE d

\* a worker process as mp.Process(target=sketch_worker, ...) starts it
NewWorker(g) ==
    [sketcher |-> g, pc |-> "loop", sketch_id |-> 0, epoch |-> 0,
     current_put_epoch |-> 0]

RECURSIVE NewWorkers(_, _)
NewWorkers(g, n) ==
    IF n = 0 THEN << >> ELSE Append(NewWorkers(g, n - 1), NewWorker(g))

NoCount == [picks_die |-> 0, puts_die |-> 0, picks_pause |-> 0, puts_pause |-> 0]

\* the history of worker w after one more claim (what = "picks") or one more
\* item enqueued (what = "puts") with the flags of its dict as they are
Counted(w, what) ==
    LET d == data[procs[w].sketcher]
        c == count[w]
    IN  IF what = "picks"
        THEN [c EXCEPT !.picks_die = IF d.die THEN Min(@ + 1, 2) ELSE @,
                       !.picks_pause = IF d.pause THEN Min(@ + 1, 2) ELSE @]
        ELSE [c EXCEPT !.puts_die = IF d.die THEN Min(@ + 1, 2) ELSE @,
                       !.puts_pause = IF d.pause THEN Min(@ + 1, 2) ELSE @]

\* the history with the counts since pause() forgotten for the workers of the
\* coordinator's stream
Uncounted ==
    [w \in DOMAIN count |->
        IF procs[w].sketcher = sketcher.shared_data
        THEN [count[w] EXCEPT !.picks_pause = 0, !.puts_pause = 0]
        ELSE count[w]]

\* a number of workers that takes half of the CPUs
resolve_half(num_workers, cpu_count) ==
    IF num_workers < 0
    THEN (IF cpu_count \div 2 >= 1 THEN cpu_count \div 2 ELSE 1)
    ELSE num_workers

\* lines 207-211: a negative num_workers becomes
\* max(1, min(1e7, int((mp.cpu_count() - 1) / 2)))
resolve(num_workers, cpu_count) ==
    IF num_workers < 0
    THEN LET half == Min(10000000, (cpu_count - 1) \div 2)
         IN  IF half >= 1 THEN half ELSE 1
    ELSE num_workers

\* Sketcher.stream(modules, num_sketches, num_epochs, num_workers, max_id) with
\* num_sketches = -1 or num_sketches > 0, on a machine of cpu_count CPUs (0
\* when mp.cpu_count() is not called); modules is the length of the modules
\* given to the workers, None when they have no __len__ (a ModulesDataset)
StreamWith(num_sketches, num_epochs, workers, cpu_count, max_id, list, modules) ==
    LET g == Len(data) + 1
        num_workers == resolve(workers, cpu_count)
        rec == [num_epochs |-> num_epochs,
                modules |-> modules,
                max_id |-> max_id,
                pause |-> FALSE,
                die |-> FALSE,
                current_pick_epoch |-> 0,
                current_put_epoch |-> 0,
                current_sketch |-> 0,
                done_in_current_epoch |-> 0,
                num_sketches |-> IF num_sketches > 0 THEN num_sketches ELSE -1,
                sketch_list |-> list,
                num_workers |-> num_workers]
    IN  /\ sketcher' = [queue |-> g, shared_data |-> g, lock |-> g,
                         asked |-> num_sketches, raised |-> FALSE,
                         num_workers |-> workers, cpu_count |-> cpu_count]
        /\ data' = Append(stop(data), rec)
        /\ queues' = Append(queues, << >>)
        /\ locks' = Append(locks, 0)
        /\ procs' = procs \o NewWorkers(g, num_workers)
        /\ trace' = Append(trace, << >>)
        /\ picked' = Append(picked, << >>)
        /\ owed' = Append(owed, ListBag(0, list))
        /\ stray' = Append(stray, EmptyBag)
        /\ count' = count \o [i \in 1 .. num_workers |-> NoCount]
        /\ UNCHANGED <<calls, sk>>

\* Sketcher.stream with num_sketches = 0 or num_sketches < -1: lines 204-235
\* stop the stream there was, make the queue and the dict up to num_sketches
\* = -1, and torch.randint raises at line 238 for the size (-1,): the dict has
\* no sketch_list, no lock is made and no worker is started
StreamRaise(num_sketches, num_epochs, num_workers, max_id) ==
    LET g == Len(data) + 1
        rec == [num_epochs |-> num_epochs,
                modules |-> << >>,
                max_id |-> max_id,
                pause |-> FALSE,
                die |-> FALSE,
                current_pick_epoch |-> 0,
                current_put_epoch |-> 0,
                current_sketch |-> 0,
                done_in_current_epoch |-> 0,
                num_sketches |-> IF num_sketches > 0 THEN num_sketches ELSE -1,
                sketch_list |-> << >>,
                num_workers |-> num_workers]
    IN  /\ num_sketches # -1
        /\ num_sketches <= 0
        /\ sketcher' = [sketcher EXCEPT !.queue = g, !.shared_data = g,
                                        !.asked = num_sketches, !.raised = TRUE]
        /\ data' = Append(stop(data), rec)
        /\ queues' = Append(queues, << >>)
        /\ locks' = Append(locks, 0)
        /\ trace' = Append(trace, << >>)
        /\ picked' = Append(picked, << >>)
        /\ owed' = Append(owed, EmptyBag)
        /\ stray' = Append(stray, EmptyBag)
        /\ UNCHANGED <<procs, count, calls, sk>>

\* the lengths the modules of an unbounded stream may have: none (a
\* ModulesDataset), or one of ids
Lengths(ids) == {<< >>} \cup {<<n>> : n \in ids}

\* stream() with its arguments drawn from the given sets, and the first
\* sketch_list drawn by torch.randint
Stream(sketches, epochs, workers, ids) ==
    \E num_sketches \in sketches, num_epochs \in epochs,
       num_workers \in workers, max_id \in ids :
       \E list \in (IF num_sketches = -1 THEN {<< >>}
                    ELSE RandList(max_id, num_sketches)),
          modules \in (IF num_sketches = -1 THEN Lengths(ids) ELSE {<< >>}),
          cpu_count \in (IF num_workers < 0 THEN 1 .. MaxCpus ELSE {0}) :
          StreamWith(num_sketches, num_epochs, num_workers, cpu_count,
                     max_id, list, modules)

\* the first stream() call on a Sketcher, unbounded or bounded epochs, with
\* any number of workers
Start ==
    /\ sketcher.shared_data = 0
    /\ Stream({-1} \cup (1 .. MaxSketches), 1 .. MaxEpochs, 0 .. MaxWorkers,
              1 .. MaxId)

\* the first stream() call on a Sketcher, asked for no sketch or for a
\* negative number of sketches other than -1
StartRaise ==
    /\ sketcher.shared_data = 0
    /\ \E num_sketches \in ((- MaxSketches) .. 0) \ {-1},
          num_epochs \in 1 .. MaxEpochs, num_workers \in 1 .. MaxWorkers,
          max_id \in 1 .. MaxId :
          StreamRaise(num_sketches, num_epochs, num_workers, max_id)

\* the first stream() call on a Sketcher, bounded epochs
StartBounded ==
    /\ sketcher.shared_data = 0
    /\ Stream(1 .. MaxSketches, 1 .. MaxEpochs, 1 .. MaxWorkers, 1 .. MaxId)

\* the first stream() call on a Sketcher, bounded epochs, ids below 1
StartOneId ==
    /\ sketcher.shared_data = 0
    /\ Stream(1 .. MaxSketches, 1 .. MaxEpochs, 1 .. MaxWorkers, {1})

\* the first stream() call on a Sketcher, bounded epochs, with a number of
\* workers that is given or, negative, left to the number of CPUs
StartAuto ==
    /\ sketcher.shared_data = 0
    /\ Stream(1 .. MaxSketches, {1}, ((- MaxWorkers) .. MaxWorkers) \ {0}, {1})

\* any stream() call, the first one or one made while a stream is active
Restart ==
    /\ Len(data) < MaxStreams
    /\ Stream(1 .. RestartSketches, 1 .. RestartEpochs, 1 .. RestartWorkers, {1})

\* Sketcher.pause
Pause ==
    /\ calls < MaxPauses
    /\ calls' = calls + 1
    /\ data' = IF sketcher.shared_data = 0 THEN data
               ELSE [data EXCEPT ![sketcher.shared_data].pause = TRUE]
    /\ count' = IF sketcher.shared_data # 0 /\ ~data[sketcher.shared_data].pause
                THEN Uncounted ELSE count
    /\ UNCHANGED <<sketcher, queues, locks, procs, trace, picked, owed, stray, sk>>

\* a resume() that resets the count of the epoch, as restart() resets a counter
ResumeReset ==
    /\ data' = IF sketcher.shared_data # 0
               THEN [data EXCEPT ![sketcher.shared_data].pause = FALSE,
                                 ![sketcher.shared_data].done_in_current_epoch = 0]
               ELSE data
    /\ count' = Uncounted
    /\ UNCHANGED <<sketcher, queues, locks, procs, trace, picked, owed, stray, calls, sk>>

\* Sketcher.resume
Resume ==
    /\ data' = IF sketcher.shared_data # 0
               THEN [data EXCEPT ![sketcher.shared_data].pause = FALSE]
               ELSE data
    /\ count' = Uncounted
    /\ UNCHANGED <<sketcher, queues, locks, procs, trace, picked, owed, stray, calls, sk>>

\* Sketcher.stop
Stop ==
    /\ data' = stop(data)
    /\ UNCHANGED <<sketcher, queues, locks, procs, trace, picked, owed, stray, count, calls, sk>>

\* the consumer: queue.get() on a queue returned by stream()
Dequeue ==
    \E g \in Streams :
        /\ queues[g] # << >>
        /\ queues' = [queues EXCEPT ![g] = Tail(@)]
        /\ UNCHANGED <<sketcher, data, locks, procs, trace, picked, owed, stray, count, calls, sk>>

\* ------------------------------------------------------- sketch_worker
Goto(w, pc) == procs' = [procs EXCEPT ![w].pc = pc]

\* a lock taken whether it is free or not
AcquireAny(w, from, to) ==
    /\ procs[w].pc = from
    /\ locks' = [locks EXCEPT ![sketcher_of(w)] = w]
    /\ Goto(w, to)
    /\ UNCHANGED <<sketcher, data, queues, trace, picked, owed, stray, count, calls, sk>>

\* getlock: sketcher.lock.acquire(block=True)
Acquire(w, from, to) ==
    /\ procs[w].pc = from
    /\ locks[sketcher_of(w)] = 0
    /\ locks' = [locks EXCEPT ![sketcher_of(w)] = w]
    /\ Goto(w, to)
    /\ UNCHANGED <<sketcher, data, queues, trace, picked, owed, stray, count, calls, sk>>

\* a getlock that does not release the lock
ReleaseNot(w) == locks' = locks

\* getlock: sketcher.lock.release()
Release(w) == locks' = [locks EXCEPT ![sketcher_of(w)] = 0]

\* line 304: if not sketcher.shared_data['pause']
CheckPause(w) ==
    /\ procs[w].pc = "loop"
    /\ Goto(w, IF ~shared_data(w).pause THEN "claim_lock" ELSE "check_die")
    /\ UNCHANGED <<sketcher, data, queues, locks, trace, picked, owed, stray, count, calls, sk>>

ClaimLock(w) == Acquire(w, "claim_lock", "claim")

\* a worker that reads the first slot of the sketch_list whatever its slot
sketch_id_first(d, id) ==
    IF d.num_sketches = -1
    THEN RandInt(IF IsNone(d.modules) THEN Int16Max ELSE d.modules[1])
    ELSE {d.sketch_list[1]}

\* lines 321-332: the id to sketch, drawn at random below the length of the
\* modules (below the int16 maximum if they have none) when the epoch is
\* unbounded, and read in slot id of the sketch_list otherwise
sketch_id_of(d, id) ==
    IF d.num_sketches = -1
    THEN RandInt(IF IsNone(d.modules) THEN Int16Max ELSE d.modules[1])
    ELSE {d.sketch_list[id + 1]}

\* a worker that takes one epoch more
finished_late(d, epoch) == epoch > d.num_epochs

\* line 335: the picked epoch is past the last one
finished(d, epoch) == epoch >= d.num_epochs

\* a pick epoch closed one slot after the last one
last_sketch_late(d, id) == id = d.num_sketches

\* a worker that closes the pick epoch at the last slot and at any slot past it
last_sketch_reached(d, id) == id >= d.num_sketches - 1

\* line 342: the slot is the last one of its epoch
last_sketch(d, id) == id = d.num_sketches - 1

\* lines 320-360, with the lock: pick the id and the epoch, advance the counters
Claim(w) ==
    LET g == sketcher_of(w)
        d == shared_data(w)
        id == d.current_sketch
        epoch == d.current_pick_epoch
    IN  /\ procs[w].pc = "claim"
        /\ d.num_sketches = -1 => id < MaxDraws
        /\ \E sketch_id \in sketch_id_of(d, id) :
            IF finished(d, epoch)
            THEN /\ procs' = [procs EXCEPT ![w].pc = "drain",
                                           ![w].sketch_id = sketch_id,
                                           ![w].epoch = epoch]
                 /\ UNCHANGED <<data, picked, owed, count>>
            ELSE /\ procs' = [procs EXCEPT ![w].pc = "compute",
                                           ![w].sketch_id = sketch_id,
                                           ![w].epoch = epoch]
                 /\ picked' = [picked EXCEPT ![g] = Append(@, <<epoch, id>>)]
                 /\ count' = [count EXCEPT ![w] = Counted(w, "picks")]
                 /\ IF last_sketch(d, id)
                    THEN \E list \in RandList(d.max_id, d.num_sketches) :
                            /\ data' = [data EXCEPT
                                          ![g].current_sketch = 0,
                                          ![g].current_pick_epoch = @ + 1,
                                          ![g].sketch_list = list]
                            /\ owed' = [owed EXCEPT ![g] = @ (+) ListBag(epoch + 1, list)]
                    ELSE /\ data' = [data EXCEPT ![g].current_sketch = @ + 1]
                         /\ UNCHANGED owed
        /\ Release(w)
        /\ UNCHANGED <<sketcher, queues, trace, stray, calls, sk>>

\* lines 368-374: wait for the queue to be empty, then sleep for ever
Drain(w) ==
    /\ procs[w].pc = "drain"
    /\ queues[sketcher_of(w)] = << >>
    /\ Goto(w, "park_epochs")
    /\ UNCHANGED <<sketcher, data, queues, locks, trace, picked, owed, stray, count, calls, sk>>

\* a computation whose result is dropped: the worker goes on with its loop
ComputeSkip(w) ==
    /\ procs[w].pc = "compute"
    /\ Goto(w, "check_die")
    /\ UNCHANGED <<sketcher, data, queues, locks, trace, picked, owed, stray, count, calls, sk>>

\* lines 380-381: the sketch of the module is computed
Compute(w) ==
    /\ procs[w].pc = "compute"
    /\ Goto(w, "wait_lock")
    /\ UNCHANGED <<sketcher, data, queues, locks, trace, picked, owed, stray, count, calls, sk>>

\* lines 380-381: the computation raises (no default data, no data obtained);
\* nothing catches it and the process ends
ComputeFail(w) ==
    /\ procs[w].pc = "compute"
    /\ Goto(w, "raised")
    /\ UNCHANGED <<sketcher, data, queues, locks, trace, picked, owed, stray, count, calls, sk>>

WaitLock(w) == Acquire(w, "wait_lock", "wait_read")

\* a read of current_put_epoch that keeps the lock for the test and the put
WaitReadHold(w) ==
    /\ procs[w].pc = "wait_read"
    /\ procs' = [procs EXCEPT ![w].pc = "wait_test",
                              ![w].current_put_epoch = shared_data(w).current_put_epoch]
    /\ UNCHANGED <<sketcher, data, queues, locks, trace, picked, owed, stray, count, calls, sk>>

\* lines 389-390, with the lock: read current_put_epoch
WaitRead(w) ==
    /\ procs[w].pc = "wait_read"
    /\ procs' = [procs EXCEPT ![w].pc = "wait_test",
                              ![w].current_put_epoch = shared_data(w).current_put_epoch]
    /\ Release(w)
    /\ UNCHANGED <<sketcher, data, queues, trace, picked, owed, stray, count, calls, sk>>

\* a worker that does not wait for its epoch's turn
can_put_any(p) == p.current_put_epoch <= p.epoch

\* line 391: the put epoch read is the epoch of the item
can_put(p) == p.current_put_epoch = p.epoch

\* lines 391-400: our turn, or die, or sleep and retry
WaitTest(w) ==
    /\ procs[w].pc = "wait_test"
    /\ Goto(w, IF can_put(procs[w]) THEN "put"
               ELSE IF shared_data(w).die THEN "park_wait"
               ELSE "wait_lock")
    /\ UNCHANGED <<sketcher, data, queues, locks, trace, picked, owed, stray, count, calls, sk>>

\* line 404: sketcher.queue.put((target_qf.detach(), sketch_id)), blocking
\* while the queue is full
Put(w) ==
    LET g == sketcher_of(w)
        item == <<procs[w].epoch, procs[w].sketch_id>>
    IN
    /\ procs[w].pc = "put"
    /\ Len(queues[g]) < maxsize(g)
    /\ queues' = [queues EXCEPT ![g] = Append(@, <<"sketch", procs[w].sketch_id>>)]
    /\ trace' = [trace EXCEPT ![g] = Append(@, procs[w].epoch)]
    /\ IF BagIn(item, owed[g])
       THEN /\ owed' = [owed EXCEPT ![g] = @ (-) SetToBag({item})]
            /\ UNCHANGED stray
       ELSE /\ stray' = [stray EXCEPT ![g] = @ (+) SetToBag({item})]
            /\ UNCHANGED owed
    /\ count' = [count EXCEPT ![w] = Counted(w, "puts")]
    /\ Goto(w, "done_lock")
    /\ UNCHANGED <<sketcher, data, locks, picked, calls, sk>>

DoneLock(w) == Acquire(w, "done_lock", "done")

\* an epoch closed one item early
epoch_done_early(d, done) == done = d.num_sketches - 1

\* an epoch closed again by every item counted after its last one
epoch_done_again(d, done) == done >= d.num_sketches

\* lines 411-412: the item counted was the last of its epoch
epoch_done(d, done) == done = d.num_sketches

\* lines 409-412, with the lock: count the item
Done(w) ==
    LET g == sketcher_of(w)
        done == shared_data(w).done_in_current_epoch + 1
    IN  /\ procs[w].pc = "done"
        /\ data' = [data EXCEPT ![g].done_in_current_epoch = done]
        /\ IF epoch_done(shared_data(w), done)
           THEN Goto(w, "sentinel") /\ UNCHANGED locks
           ELSE Goto(w, "check_die") /\ Release(w)
        /\ UNCHANGED <<sketcher, queues, trace, picked, owed, stray, count, calls, sk>>

\* lines 415-417, with the lock: sketcher.queue.put(None), blocking while the
\* queue is full, then the next put epoch
Sentinel(w) ==
    LET g == sketcher_of(w) IN
    /\ procs[w].pc = "sentinel"
    /\ Len(queues[g]) < maxsize(g)
    /\ queues' = [queues EXCEPT ![g] = Append(@, None)]
    /\ trace' = [trace EXCEPT ![g] = Append(@, -1)]
    /\ data' = [data EXCEPT ![g].done_in_current_epoch = 0,
                            ![g].current_put_epoch = @ + 1]
    /\ Release(w)
    /\ Goto(w, "check_die")
    /\ UNCHANGED <<sketcher, picked, owed, stray, count, calls, sk>>

\* a worker that looks at die only when it is not paused
CheckDieUnpaused(w) ==
    /\ procs[w].pc = "check_die"
    /\ Goto(w, IF shared_data(w).die /\ ~shared_data(w).pause
               THEN "park_die" ELSE "loop")
    /\ UNCHANGED <<sketcher, data, queues, locks, trace, picked, owed, stray, count, calls, sk>>

\* lines 419-430: if 'die' in sketcher.shared_data, sleep for ever; otherwise
\* sleep 2 seconds if paused (which changes no state) and loop
CheckDie(w) ==
    /\ procs[w].pc = "check_die"
    /\ Goto(w, IF shared_data(w).die THEN "park_die" ELSE "loop")
    /\ UNCHANGED <<sketcher, data, queues, locks, trace, picked, owed, stray, count, calls, sk>>

\* one step of one worker process
Worker ==
    \/ \E w \in Workers : CheckPause(w)
    \/ \E w \in Workers : ClaimLock(w)
    \/ \E w \in Workers : Claim(w)
    \/ \E w \in Workers : Drain(w)
    \/ \E w \in Workers : Compute(w)
    \/ \E w \in Workers : WaitLock(w)
    \/ \E w \in Workers : WaitRead(w)
    \/ \E w \in Workers : WaitTest(w)
    \/ \E w \in Workers : Put(w)
    \/ \E w \in Workers : DoneLock(w)
    \/ \E w \in Workers : Done(w)
    \/ \E w \in Workers : Sentinel(w)
    \/ \E w \in Workers : CheckDie(w)

\* a computation fails in one worker process
Fail == \E w \in Workers : ComputeFail(w)

Next ==
    \/ Start
    \/ StartRaise
    \/ Stop
    \/ Dequeue
    \/ Worker
    \/ Fail

Spec == Init /\ [][Next]_vars

\* one step of worker process w
Step(w) ==
    /\ w \in Workers
    /\ \/ CheckPause(w)
       \/ ClaimLock(w)
       \/ Claim(w)
       \/ Drain(w)
       \/ Compute(w)
       \/ WaitLock(w)
       \/ WaitRead(w)
       \/ WaitTest(w)
       \/ Put(w)
       \/ DoneLock(w)
       \/ Done(w)
       \/ Sentinel(w)
       \/ CheckDie(w)

\* Every worker process keeps running and gets the lock it keeps asking for;
\* the consumer keeps taking messages out of the queue.
Fairness ==
    /\ WF_vars(Dequeue)
    /\ \A w \in 1 .. MaxStreams * MaxWorkers : SF_vars(Step(w))

\* a bounded stream left alone: no pause(), no stop(), no failing computation
NextLive ==
    \/ StartBounded
    \/ Dequeue
    \/ Worker

LiveSpec == Init /\ [][NextLive]_vars /\ Fairness

\* stop(), pause() and resume() at any time, no failing computation
NextStop ==
    \/ StartOneId
    \/ Pause
    \/ Resume
    \/ Stop
    \/ Dequeue
    \/ Worker

StopSpec == Init /\ [][NextStop]_vars /\ Fairness

\* pause() and resume() at any time, no stop() and no failing computation
NextPause ==
    \/ StartOneId
    \/ Pause
    \/ Resume
    \/ Dequeue
    \/ Worker

PauseSpec == Init /\ [][NextPause]_vars /\ Fairness

\* stream() called again at any time
NextRestart ==
    \/ Restart
    \/ Dequeue
    \/ Worker

RestartSpec == Init /\ [][NextRestart]_vars

\* a bounded stream whose computations may fail, left alone otherwise
NextFail ==
    \/ StartOneId
    \/ Dequeue
    \/ Worker
    \/ Fail

FailSpec == Init /\ [][NextFail]_vars /\ Fairness

\* streams started with any number of workers asked for, on any machine
NextAuto ==
    \/ StartAuto
    \/ Dequeue
    \/ Worker

AutoSpec == Init /\ [][NextAuto]_vars

\* ------------------------------------------------ on-demand computation
RECURSIVE Sum(_)
Sum(s) == IF s = << >> THEN 0 ELSE Head(s) + Sum(Tail(s))

\* the data sources: at most MaxBatches batches of 1 .. MaxBatch samples
Sources == UNION {[1 .. n -> 1 .. MaxBatch] : n \in 0 .. MaxBatches}

\* the sample budgets: None, or an integer
Budgets == {<< >>} \cup {<<k>> : k \in -1 .. MaxExamples}

\* a Sketcher built on any data source, or on none, with any sample budget
SketchInit ==
    /\ sketcher = [queue |-> 0, shared_data |-> 0, lock |-> 0,
                   asked |-> 0, raised |-> FALSE,
                   num_workers |-> 0, cpu_count |-> 0]
    /\ sk \in {Constructed(data_source, num_examples) :
                 data_source \in {<< >>} \cup {<<Iterator(b)>> : b \in Sources},
                 num_examples \in Budgets}
    /\ data = << >>
    /\ queues = << >>
    /\ locks = << >>
    /\ procs = << >>
    /\ trace = << >>
    /\ picked = << >>
    /\ owed = << >>
    /\ stray = << >>
    /\ count = << >>
    /\ calls = 0

\* the slot of torch.empty that nothing was written in
Empty == 0

\* a __call__ that takes the default data whatever it is given
use_default_always(data_arg) == TRUE

\* line 164: data is None
use_default(data_arg) == IsNone(data_arg)

\* sketch() at the top of its loop over the modules (lines 54-58), for the
\* module of index module
ForModule(s, module) ==
    [s EXCEPT !.pc = "while",
              !.module = module,
              !.allocated = FALSE,
              !.processed = << >>,
              !.pos = 0,
              !.warned = FALSE,
              !.start = s.it.taken,
              !.avail = Sum(s.it.batches)]

\* Sketcher.__call__ (lines 162-178) up to the first module of sketch()
\* (lines 41-58); __getitem__ is the call with data = None
Call ==
    /\ sk.pc \in {"idle", "returned", "raised"}
    /\ sk.calls < MaxCalls
    /\ \E data_arg \in {<< >>} \cup {<<Iterator(b)>> : b \in Sources},
          modules \in 1 .. MaxModules, iterable \in BOOLEAN :
          /\ ~iterable => modules = 1
          /\ LET s == [sk EXCEPT !.calls = @ + 1,
                                 !.given = ~IsNone(data_arg),
                                 !.modules = modules,
                                 !.iterable = iterable,
                                 !.sketches = << >>,
                                 !.error = ""]
             IN  IF use_default(data_arg)
                 THEN IF IsNone(sk.data_iterator)
                      THEN sk' = [s EXCEPT !.pc = "raised",
                                           !.error = "NoDefaultData"]
                      ELSE sk' = ForModule([s EXCEPT !.it = sk.data_iterator[1],
                                                     !.budget = sk.num_examples],
                                           1)
                 ELSE sk' = ForModule([s EXCEPT !.it = data_arg[1],
                                                !.budget = << >>],
                                      1)
    /\ UNCHANGED <<sketcher, data, queues, locks, procs, trace, picked, owed,
                   stray, count, calls>>

\* lines 61-62: the condition of the while loop
more(s) == IF IsNone(s.budget) THEN TRUE ELSE s.pos < s.budget[1]

\* a batch cut one sample too short
n_imgs_short(len, budget, pos) ==
    IF IsNone(budget) THEN len ELSE Min(len, budget[1] - pos - 1)

\* lines 77-80: the number of samples taken from a batch of len samples
n_imgs(len, budget, pos) ==
    IF IsNone(budget) THEN len ELSE Min(len, budget[1] - pos)

\* the iterator after a next(); the default iterator of the Sketcher is the
\* one sketch() advances when no data was given to the call
Advanced(s, it) ==
    [s EXCEPT !.it = it,
              !.data_iterator = IF s.given THEN @ ELSE <<it>>]

\* lines 61-110: one more batch is read, cut, and stored in processed
NextBatch ==
    /\ sk.pc = "while"
    /\ more(sk)
    /\ sk.it.batches # << >>
    /\ LET len == Head(sk.it.batches)
           n == n_imgs(len, sk.budget, sk.pos)
           computed == [i \in 1 .. n |-> sk.it.taken + i]
           buffer == IF sk.allocated THEN sk.processed
                     ELSE IF IsNone(sk.budget) THEN << >>
                     ELSE [i \in 1 .. sk.budget[1] |-> Empty]
           processed == IF IsNone(sk.budget) THEN buffer \o computed
                        ELSE [i \in 1 .. Len(buffer) |->
                                 IF sk.pos < i /\ i <= sk.pos + n
                                 THEN computed[i - sk.pos] ELSE buffer[i]]
           it == [batches |-> Tail(sk.it.batches), taken |-> sk.it.taken + len]
       IN  sk' = [Advanced(sk, it) EXCEPT !.allocated = TRUE,
                                          !.processed = processed,
                                          !.pos = sk.pos + n]
    /\ UNCHANGED <<sketcher, data, queues, locks, procs, trace, picked, owed,
                   stray, count, calls>>

\* lines 65-73: next() raises StopIteration; a warning if there is a budget
StopIteration ==
    /\ sk.pc = "while"
    /\ more(sk)
    /\ sk.it.batches = << >>
    /\ sk' = [sk EXCEPT !.pc = "quantiles", !.warned = ~IsNone(sk.budget)]
    /\ UNCHANGED <<sketcher, data, queues, locks, procs, trace, picked, owed,
                   stray, count, calls>>

\* lines 61-62: the budget is reached
EndWhile ==
    /\ sk.pc = "while"
    /\ ~more(sk)
    /\ sk' = [sk EXCEPT !.pc = "quantiles"]
    /\ UNCHANGED <<sketcher, data, queues, locks, procs, trace, picked, owed,
                   stray, count, calls>>

\* a sketch of the whole buffer
untruncated(processed, pos) == processed

\* line 117: processed[:pos]
truncated(processed, pos) == SubSeq(processed, 1, Min(pos, Len(processed)))

\* lines 112-124: no data raises; otherwise the quantiles of the samples kept
\* are the sketch of the module, and sketch() goes on with the next module or
\* returns
Quantiles ==
    /\ sk.pc = "quantiles"
    /\ IF ~sk.allocated
       THEN sk' = [sk EXCEPT !.pc = "raised", !.error = "EmptySource"]
       ELSE LET s == [sk EXCEPT !.sketches =
                         Append(@, [samples |-> truncated(sk.processed, sk.pos),
                                    pos |-> sk.pos,
                                    budget |-> sk.budget,
                                    start |-> sk.start,
                                    avail |-> sk.avail,
                                    warned |-> sk.warned])]
            IN  IF sk.module < sk.modules
                THEN sk' = ForModule(s, sk.module + 1)
                ELSE sk' = [s EXCEPT !.pc = "returned"]
    /\ UNCHANGED <<sketcher, data, queues, locks, procs, trace, picked, owed,
                   stray, count, calls>>

\* on-demand sketches computed one call after the other, no stream
NextSketch ==
    \/ Call
    \/ NextBatch
    \/ StopIteration
    \/ EndWhile
    \/ Quantiles

SketchSpec == SketchInit /\ [][NextSketch]_vars

\* ------------------------------------------------------------ properties
Bounded(g) == data[g].num_sketches # -1

\* the number of terminators among the first j messages of t
Terminators(t, j) == Cardinality({i \in 1 .. j : t[i] = -1})

\* the workers of stream g
WorkersOf(g) == {w \in Workers : procs[w].sketcher = g}

\* C1: with bounded epochs every item message is enqueued after exactly as
\* many terminators as the epoch it was claimed in: the epochs of the items in
\* the queue never decrease and no item of epoch e + 1 comes before the
\* terminator of epoch e.
EpochOrder ==
    \A g \in Streams : Bounded(g) =>
        \A j \in 1 .. Len(trace[g]) :
            trace[g][j] # -1 => trace[g][j] = Terminators(trace[g], j - 1)

\* C1: two workers have published an item of the second epoch after the
\* terminator of the first one
EpochOrderWitness ==
    \E g \in Streams :
        /\ Bounded(g)
        /\ data[g].num_workers >= 2
        /\ \E j \in 1 .. Len(trace[g]) : trace[g][j] = 1
        /\ \E w \in WorkersOf(g) : procs[w].pc = "wait_test" /\ procs[w].epoch = 1

\* C2: with bounded epochs the messages enqueued are blocks of exactly
\* num_sketches items of one epoch followed by one terminator, and there are as
\* many terminators as epochs completed.
OneTerminator ==
    \A g \in Streams : Bounded(g) =>
        LET n == data[g].num_sketches
            t == trace[g]
        IN  /\ \A j \in 1 .. Len(t) :
                  IF j % (n + 1) = 0 THEN t[j] = -1 ELSE t[j] = j \div (n + 1)
            /\ Terminators(t, Len(t)) = data[g].current_put_epoch

\* C2: two workers, two items an epoch, and the second terminator is enqueued
OneTerminatorWitness ==
    \E g \in Streams :
        /\ data[g].num_sketches = 2
        /\ data[g].num_workers = 2
        /\ trace[g] = <<0, 0, -1, 1, 1, -1>>

\* C4: with bounded epochs the k-th claim is slot (k - 1) mod num_sketches of
\* epoch (k - 1) div num_sketches, no claim is made past the last epoch, every
\* item enqueued is an id its epoch's sketch_list still owed, and a completed
\* epoch is owed nothing: its items are the ids of its sketch_list.
SlotsOnce ==
    \A g \in Streams : Bounded(g) =>
        LET n == data[g].num_sketches IN
        /\ \A k \in 1 .. Len(picked[g]) :
              picked[g][k] = <<(k - 1) \div n, (k - 1) % n>>
        /\ Len(picked[g]) <= n * data[g].num_epochs
        /\ stray[g] = EmptyBag
        /\ \A x \in BagToSet(owed[g]) : x[1] >= data[g].current_put_epoch

\* C4: an epoch whose sketch_list held two different ids is completed by two
\* workers
SlotsOnceWitness ==
    \E g \in Streams :
        /\ data[g].num_workers = 2
        /\ data[g].current_put_epoch = 1
        /\ queues[g] = <<<<"sketch", 1>>, <<"sketch", 0>>, None>>

\* C5: current_put_epoch never exceeds current_pick_epoch.
PutBeforePick ==
    \A g \in Streams : data[g].current_put_epoch <= data[g].current_pick_epoch

\* C5: an epoch is completed while a worker holds an item of the next one
PutBeforePickWitness ==
    \E g \in Streams :
        /\ data[g].current_put_epoch = 1
        /\ data[g].current_pick_epoch = 2
        /\ \E w \in WorkersOf(g) : procs[w].pc = "compute"

\* every message of a bounded stream g is enqueued and its workers sleep for
\* ever after reading a pick epoch past the last one
Exhausted(g) ==
    /\ Len(trace[g]) = data[g].num_epochs * (data[g].num_sketches + 1)
    /\ Terminators(trace[g], Len(trace[g])) = data[g].num_epochs
    /\ \A w \in WorkersOf(g) : procs[w].pc = "park_epochs"

AllExhausted == Streams # {} /\ \A g \in Streams : Exhausted(g)

\* C3: a bounded stream left alone, with fair workers and a consumer that
\* keeps dequeuing, ends with num_epochs * num_sketches items and num_epochs
\* terminators enqueued and every worker asleep after it read a pick epoch
\* past the last one; nothing changes afterwards, and no worker ever holds an
\* item of an epoch past the last one.
StreamEnds ==
    /\ (Streams # {}) ~> AllExhausted
    /\ [][AllExhausted => AllExhausted']_vars
    /\ [](\A w \in Workers :
            procs[w].pc \in {"compute", "wait_lock", "wait_read", "wait_test",
                             "put", "done_lock", "done", "sentinel"}
            => procs[w].epoch < shared_data(w).num_epochs)

\* C3: two epochs of two items are all enqueued by two workers, which sleep
StreamEndsWitness ==
    \E g \in Streams :
        /\ Exhausted(g)
        /\ data[g].num_workers = 2
        /\ trace[g] = <<0, 0, -1, 1, 1, -1>>
        /\ queues[g] = << >>

\* the endless sleeps of lines 373-374, 396-398 and 421-423
Asleep == {"park_epochs", "park_wait", "park_die"}

\* C6: a worker in DYING, after stop() or after the last epoch, has returned
\* from sketch_worker.
DyingReturns ==
    \A w \in Workers :
        procs[w].pc \in Asleep \cup {"returned"} => procs[w].pc = "returned"

\* C7: once die is set on a stream, with fair workers and a consumer that
\* keeps dequeuing, every worker of the stream ends in one of the endless
\* sleeps, and after die is set a worker claims at most one more item (in the
\* loop iteration it was in) and enqueues at most one more item message.
StopObserved ==
    /\ \A g \in 1 .. MaxStreams :
          (g \in Streams /\ data[g].die)
             ~> (\A w \in WorkersOf(g) : procs[w].pc \in Asleep)
    /\ [](\A w \in Workers : count[w].picks_die <= 1 /\ count[w].puts_die <= 1)

\* C7: die and pause are both set and every worker sleeps for ever, one of
\* them out of its wait for its turn; one claimed and enqueued an item after
\* die was set
StopObservedWitness ==
    \E g \in Streams :
        /\ data[g].die
        /\ data[g].pause
        /\ \A w \in WorkersOf(g) : procs[w].pc \in Asleep
        /\ \E w \in WorkersOf(g) : procs[w].pc = "park_wait"
        /\ \E w \in WorkersOf(g) : count[w].picks_die = 1 /\ count[w].puts_die = 1

\* C8: while the pause flag stays set a worker claims no new work and enqueues
\* at most the one item it held when the flag was set.
PauseStops ==
    \A w \in Workers :
        shared_data(w).pause =>
            count[w].picks_pause = 0 /\ count[w].puts_pause <= 1

\* every epoch of every stream is complete in the queue history
AllPublished ==
    /\ Streams # {}
    /\ \A g \in Streams :
          Len(trace[g]) = data[g].num_epochs * (data[g].num_sketches + 1)

Resumed == Streams # {} /\ \A g \in Streams : ~data[g].pause

\* C9: whatever pause() and resume() calls are made, the messages enqueued
\* are blocks of num_sketches items of one epoch and one terminator, and if
\* the stream is finally left resumed every epoch is eventually complete.
PauseKeepsEpochs ==
    /\ []OneTerminator
    /\ <>[]Resumed => <>AllPublished

\* C9: two workers are parked by pause() in the middle of the second epoch
PauseKeepsEpochsWitness ==
    \E g \in Streams :
        /\ data[g].pause
        /\ data[g].num_workers = 2
        /\ trace[g] = <<0, 0, -1, 1>>
        /\ \A w \in WorkersOf(g) : procs[w].pc = "check_die"

\* the dict as lines 220-241 leave it: not paused, no die key, counters at 0
Fresh(d) ==
    /\ ~d.pause
    /\ ~d.die
    /\ d.current_pick_epoch = 0
    /\ d.current_put_epoch = 0
    /\ d.current_sketch = 0
    /\ d.done_in_current_epoch = 0

\* C10: a stream() call sets die in the dict of the stream that was active,
\* then gives the coordinator a fresh dict and an empty queue of their own; a
\* step of a worker changes no dict, queue, lock or queue history but those of
\* the stream that started it; and a worker sleeps for die only when die is
\* set in the dict of its own stream.
RestartIsolated ==
    /\ [][Len(data') > Len(data) =>
            /\ sketcher.shared_data # 0 => data'[sketcher.shared_data].die
            /\ sketcher'.shared_data = Len(data')
            /\ sketcher'.queue = Len(data')
            /\ sketcher'.shared_data # sketcher.shared_data
            /\ Fresh(data'[sketcher'.shared_data])
            /\ queues'[sketcher'.queue] = << >>]_vars
    /\ [][\A w \in Workers : procs'[w] # procs[w] =>
            \A g \in Streams \ {procs[w].sketcher} :
                /\ data'[g] = data[g]
                /\ queues'[g] = queues[g]
                /\ locks'[g] = locks[g]
                /\ trace'[g] = trace[g]]_vars
    /\ [](\A w \in Workers :
            procs[w].pc \in {"park_wait", "park_die"} => shared_data(w).die)

\* C10: a worker of the first stream has enqueued an item after the second
\* stream() call and sleeps, and the second stream has enqueued all its
\* messages
RestartIsolatedWitness ==
    /\ Len(data) = 2
    /\ \E w \in WorkersOf(1) : procs[w].pc = "park_die" /\ count[w].puts_die = 1
    /\ \A w \in WorkersOf(2) : procs[w].pc = "park_epochs"
    /\ Len(trace[2]) = data[2].num_epochs * (data[2].num_sketches + 1)

\* C17: an on-demand call ends with the no-default-data error exactly when
\* the Sketcher has no default data iterator and no data is given to the call
\* (a call given data never ends with it), and the call that raises it leaves
\* the iterator and the budget of the Sketcher, its queue, its shared data and
\* the streams as they were, and computes nothing.
NoDefaultData ==
    /\ [](sk.error = "NoDefaultData"
            => sk.pc = "raised" /\ ~sk.given /\ IsNone(sk.data_iterator))
    /\ [](sk.pc # "idle" /\ ~sk.given /\ IsNone(sk.data_iterator)
            => sk.error = "NoDefaultData")
    /\ [][sk'.calls # sk.calls /\ sk'.error = "NoDefaultData" =>
            /\ sk'.data_iterator = sk.data_iterator
            /\ sk'.num_examples = sk.num_examples
            /\ sk'.sketches = << >>
            /\ UNCHANGED <<sketcher, data, queues, locks, procs>>]_vars

\* C17: a call given data has returned its sketch and the next call, given
\* none, raises for want of default data
NoDefaultDataWitness ==
    /\ sk.calls = 2
    /\ sk.pc = "raised"
    /\ sk.error = "NoDefaultData"
    /\ sk.it.taken > 0

\* C18: with a budget of k >= 1 samples and a source that has at least k
\* samples left for the module, whatever its batches, the sketch of the module
\* is computed over exactly the first k of these samples, in order: pos ends
\* at k, the last batch is cut, no warning is given and no error raised; pos
\* never exceeds k on the way.
ExactBudget ==
    /\ \A j \in 1 .. Len(sk.sketches) :
          LET e == sk.sketches[j] IN
          (~IsNone(e.budget) /\ e.budget[1] >= 1 /\ e.avail >= e.budget[1]) =>
              /\ e.pos = e.budget[1]
              /\ e.samples = [i \in 1 .. e.budget[1] |-> e.start + i]
              /\ ~e.warned
    /\ (sk.pc \in {"while", "quantiles"} /\ ~IsNone(sk.budget) /\ sk.budget[1] >= 1)
          => sk.pos <= sk.budget[1]
    /\ (sk.error = "EmptySource" /\ ~IsNone(sk.budget) /\ sk.budget[1] >= 1)
          => sk.avail < sk.budget[1]

\* C18: a budget of 3 samples on a source of two batches of 2: the second
\* batch is cut to one sample
ExactBudgetWitness ==
    \E j \in 1 .. Len(sk.sketches) :
        /\ sk.sketches[j].budget = <<3>>
        /\ sk.sketches[j].avail = 4
        /\ sk.sketches[j].samples = <<1, 2, 3>>
        /\ sk.it.taken = 4

\* C19: with a budget of k samples and a source exhausted after 1 <= m < k
\* samples for the module, sketch() raises nothing: it warns, and the sketch
\* of the module is computed over exactly these m samples, in order, none of
\* the slots left empty in the buffer being kept.
ShortSource ==
    /\ \A j \in 1 .. Len(sk.sketches) :
          LET e == sk.sketches[j] IN
          (~IsNone(e.budget) /\ 1 <= e.avail /\ e.avail < e.budget[1]) =>
              /\ e.warned
              /\ e.pos = e.avail
              /\ e.samples = [i \in 1 .. e.avail |-> e.start + i]
    /\ (sk.error = "EmptySource" /\ ~IsNone(sk.budget))
          => ~(1 <= sk.avail /\ sk.avail < sk.budget[1])
    /\ (sk.pc = "quantiles" /\ ~IsNone(sk.budget)
          /\ 1 <= sk.avail /\ sk.avail < sk.budget[1])
          => sk.allocated /\ sk.warned /\ sk.pos = sk.avail

\* C19: a budget of 2 samples, and the second module finds one sample left
ShortSourceWitness ==
    \E j \in 1 .. Len(sk.sketches) :
        /\ sk.sketches[j].budget = <<2>>
        /\ sk.sketches[j].start = 2
        /\ sk.sketches[j].avail = 1
        /\ sk.sketches[j].warned
        /\ sk.sketches[j].samples = <<3>>

\* C20: sketch() raises the empty-source error for a module exactly when the
\* source has no sample left for it: it raises when there is none, and it
\* does not raise when there is at least one, whatever the budget and the
\* batches.
EmptySourceExactly ==
    /\ sk.error = "EmptySource" => sk.avail = 0
    /\ \A j \in 1 .. Len(sk.sketches) : sk.sketches[j].avail >= 1

\* C11: a failed computation does not hang the stream: with fair workers and a
\* consumer that keeps dequeuing, a worker that waits for the turn of its item
\* while the computation of another worker of its stream has raised is not
\* blocked for ever: the epoch of the failed item is closed all the same, the
\* put epoch reaches the epoch of the waiting worker and it enqueues its item.
FailureUnblocks ==
    \A v \in 1 .. MaxStreams * MaxWorkers :
        (/\ v \in Workers
         /\ procs[v].pc \in {"wait_lock", "wait_read", "wait_test"}
         /\ \E w \in WorkersOf(procs[v].sketcher) : procs[w].pc = "raised")
            ~> (v \in Workers /\ procs[v].pc = "put")

\* C12: in a stream of unbounded epochs (num_sketches = -1, num_epochs >= 1)
\* no terminator is ever enqueued, current_pick_epoch and current_put_epoch
\* stay 0, no worker finds the epochs exhausted or enqueues a terminator, and
\* the put epoch a worker reads when it waits for its turn is always the epoch
\* of its item: it never waits, and never sleeps for die in that wait.
UnboundedNeverCloses ==
    \A g \in Streams : (~Bounded(g) /\ data[g].num_epochs >= 1) =>
        /\ data[g].current_pick_epoch = 0
        /\ data[g].current_put_epoch = 0
        /\ \A j \in 1 .. Len(trace[g]) : trace[g][j] = 0
        /\ \A j \in 1 .. Len(queues[g]) : queues[g][j] # None
        /\ \A w \in WorkersOf(g) :
              /\ procs[w].pc \notin {"drain", "park_epochs", "sentinel", "park_wait"}
              /\ procs[w].pc = "wait_test"
                    => procs[w].current_put_epoch = procs[w].epoch

\* C12: two workers of an unbounded stream have made three claims, two items
\* are enqueued and the third has its turn
UnboundedNeverClosesWitness ==
    \E g \in Streams :
        /\ ~Bounded(g)
        /\ data[g].num_workers = 2
        /\ data[g].current_sketch >= 3
        /\ Len(trace[g]) >= 2
        /\ \E w \in WorkersOf(g) : procs[w].pc = "wait_test"

\* C13: a stream() call asked for any negative num_sketches succeeds and
\* starts an unbounded stream: it does not raise, the dict has num_sketches
\* = -1 and no sketch_list, no list of ids is drawn, and its workers are
\* started.
NegativeUnbounded ==
    sketcher.asked < 0 =>
        /\ ~sketcher.raised
        /\ data[sketcher.shared_data].num_sketches = -1
        /\ data[sketcher.shared_data].sketch_list = << >>
        /\ owed[sketcher.shared_data] = EmptyBag
        /\ Cardinality(WorkersOf(sketcher.shared_data))
              = data[sketcher.shared_data].num_workers

\* C14: in a stream of unbounded epochs every id a worker holds and every id
\* in the queue is below the length of the modules when they have one, and
\* below the max_id of the dict otherwise.
DrawnBelowBound ==
    \A g \in Streams : ~Bounded(g) =>
        LET B == IF IsNone(data[g].modules) THEN data[g].max_id
                 ELSE data[g].modules[1]
        IN  /\ \A w \in WorkersOf(g) : procs[w].sketch_id \in 0 .. (B - 1)
            /\ \A j \in 1 .. Len(queues[g]) : queues[g][j][2] \in 0 .. (B - 1)

\* C15: the queue of a stream never holds more than 2 * num_workers messages;
\* a step leaves a queue as it is, takes its first message out, or adds one
\* message at its end, and it adds one only to a queue that is not full; a
\* worker about to enqueue an item or a terminator in a full queue does not
\* move while the queue stays as it is.
QueueBounded ==
    /\ [](\A g \in Streams : Len(queues[g]) <= 2 * data[g].num_workers)
    /\ [][\A g \in Streams :
            \/ queues'[g] = queues[g]
            \/ queues[g] # << >> /\ queues'[g] = Tail(queues[g])
            \/ /\ Len(queues[g]) < 2 * data[g].num_workers
               /\ Len(queues'[g]) = Len(queues[g]) + 1
               /\ SubSeq(queues'[g], 1, Len(queues[g])) = queues[g]]_vars
    /\ [][\A w \in Workers :
            (/\ procs[w].pc \in {"put", "sentinel"}
             /\ Len(queues[procs[w].sketcher])
                   = 2 * data[procs[w].sketcher].num_workers
             /\ queues'[procs[w].sketcher] = queues[procs[w].sketcher])
            => procs'[w] = procs[w]]_vars

\* C15: the queue is full, a terminator in it, and a worker has an item of the
\* next epoch to enqueue
QueueBoundedWitness ==
    \E g \in Streams :
        /\ Len(queues[g]) = 2 * data[g].num_workers
        /\ \E j \in 1 .. Len(queues[g]) : queues[g][j] = None
        /\ \E w \in WorkersOf(g) : procs[w].pc = "put"

\* C16: a step that is a pause(), resume() or stop() call (no worker moves,
\* no queue changes and no stream starts) leaves the Sketcher, its default
\* data, the locks and every dict but the one of the active stream as they
\* are; with no active stream it changes no dict at all; in the dict of the
\* active stream it changes nothing but pause or die, never both, and never
\* takes die away.
ControlsFrame ==
    [][(procs' = procs /\ queues' = queues /\ Len(data') = Len(data)) =>
          /\ sketcher' = sketcher
          /\ locks' = locks
          /\ sk' = sk
          /\ sketcher.shared_data = 0 => data' = data
          /\ \A g \in Streams :
                /\ g # sketcher.shared_data => data'[g] = data[g]
                /\ data'[g] = [data[g] EXCEPT !.pause = data'[g].pause,
                                              !.die = data'[g].die]
                /\ data[g].die => data'[g].die
                /\ data'[g].pause = data[g].pause \/ data'[g].die = data[g].die]_vars

\* C16: pause() has been called on a Sketcher that has no stream
ControlsFrameWitness ==
    /\ sketcher.shared_data = 0
    /\ data = << >>
    /\ calls = 1

\* line 124: what sketch() returns, the list of the sketches or, for one
\* callable that is not iterable, its sketch
returned(s) == IF s.iterable THEN s.sketches ELSE s.sketches[1]

\* C21: given N >= 1 callables and one source that yields at least one sample,
\* sketch() raises nothing once the first callable has its sketch and returns
\* N sketches, one per callable in the order given (the sketch itself for one
\* callable that is not iterable), and the sketch of a callable is the one it
\* would have as the first of the list: it is computed from the samples the
\* first callable was computed from.
SketchPerModule ==
    /\ (sk.pc = "raised" /\ sk.error = "EmptySource") => sk.sketches = << >>
    /\ sk.pc = "returned" =>
          /\ Len(sk.sketches) = sk.modules
          /\ IF sk.iterable THEN returned(sk) = sk.sketches
                            ELSE <<returned(sk)>> = sk.sketches
    /\ \A j \in 1 .. Len(sk.sketches) :
          /\ sk.sketches[j].start = sk.sketches[1].start
          /\ sk.sketches[j].samples = sk.sketches[1].samples

Critical == {"claim", "wait_read", "done", "sentinel"}

\* the counters of a dict that the workers read, modify and write
Counters(d) ==
    <<d.current_sketch, d.current_pick_epoch, d.done_in_current_epoch,
      d.current_put_epoch>>

\* C23: mutual exclusion: at most one worker of a stream is inside a critical
\* section of the lock (the claim, the read of current_put_epoch, the count of
\* the item done and the terminator), this worker holds the lock, and every
\* step that writes current_sketch, current_pick_epoch, done_in_current_epoch
\* or current_put_epoch is a step of the one worker that holds the lock.
MutualExclusion ==
    /\ [](\A g \in Streams :
            /\ Cardinality({w \in WorkersOf(g) : procs[w].pc \in Critical}) <= 1
            /\ \A w \in WorkersOf(g) :
                  procs[w].pc \in Critical <=> locks[g] = w)
    /\ [][\A g \in Streams :
            Counters(data'[g]) # Counters(data[g]) =>
               /\ locks[g] # 0
               /\ procs[locks[g]].pc \in Critical
               /\ procs'[locks[g]].pc # procs[locks[g]].pc
               /\ \A v \in WorkersOf(g) \ {locks[g]} : procs'[v] = procs[v]]_vars

\* C23: a worker is in its claim section while another worker of the stream,
\* its item enqueued, waits for the lock to count it
MutualExclusionWitness ==
    \E w, v \in Workers :
        /\ sketcher_of(w) = sketcher_of(v)
        /\ procs[w].pc = "claim"
        /\ procs[v].pc = "done_lock"
        /\ locks[sketcher_of(w)] = w

\* the worker is about to read a field of the dict and branch on it: pause
\* (line 304), the counters of the claim (lines 320-342), current_put_epoch
\* (line 390), die when it is not the turn of its item (line 394),
\* done_in_current_epoch (lines 409-412), die and pause (lines 419-426)
Reads(w) ==
    \/ procs[w].pc \in {"loop", "claim", "wait_read", "done", "check_die"}
    \/ procs[w].pc = "wait_test" /\ ~can_put(procs[w])

\* C24: every read of a field of the dict on which a worker branches (pause,
\* die, current_pick_epoch, current_put_epoch, current_sketch, num_sketches,
\* done_in_current_epoch) is made while this worker holds the lock.
ReadsUnderLock ==
    \A w \in Workers : Reads(w) => locks[sketcher_of(w)] = w

\* C25: pause is checked in the claim step, with the lock: no worker makes a
\* claim (reads current_sketch, advances current_sketch or current_pick_epoch)
\* in a state where the pause flag of its stream is set, however the pause()
\* of the coordinator falls between the steps of the workers.
ClaimsUnpaused ==
    [][\A w \in Workers :
          (procs[w].pc = "claim" /\ procs'[w].pc # "claim")
              => ~shared_data(w).pause]_vars

\* C26: with bounded epochs the counters stay in range: outside the critical
\* sections (the lock is free) current_sketch and done_in_current_epoch are
\* between 0 and num_sketches - 1; current_pick_epoch and current_put_epoch
\* never exceed num_epochs; current_pick_epoch grows by exactly 1 exactly in
\* the claim of the last slot (current_sketch = num_sketches - 1), which sets
\* current_sketch back to 0, and any other claim adds 1 to current_sketch; a
\* claim that finds current_pick_epoch >= num_epochs changes no field.
CountersInRange ==
    /\ [](\A g \in Streams : Bounded(g) =>
            /\ locks[g] = 0 =>
                  /\ data[g].current_sketch \in 0 .. data[g].num_sketches - 1
                  /\ data[g].done_in_current_epoch
                        \in 0 .. data[g].num_sketches - 1
            /\ data[g].current_pick_epoch \in 0 .. data[g].num_epochs
            /\ data[g].current_put_epoch \in 0 .. data[g].num_epochs)
    /\ [][\A g \in Streams : Bounded(g) =>
            LET d == data[g]
                claimed == \E w \in WorkersOf(g) :
                              /\ procs[w].pc = "claim"
                              /\ procs'[w].pc = "compute"
                exhausted == \E w \in WorkersOf(g) :
                                /\ procs[w].pc = "claim"
                                /\ procs'[w].pc = "drain"
                last == d.current_sketch = d.num_sketches - 1
            IN  /\ data'[g].current_pick_epoch = d.current_pick_epoch + 1
                      <=> claimed /\ last
                /\ data'[g].current_pick_epoch # d.current_pick_epoch + 1
                      => data'[g].current_pick_epoch = d.current_pick_epoch
                /\ claimed /\ last => data'[g].current_sketch = 0
                /\ claimed /\ ~last
                      => data'[g].current_sketch = d.current_sketch + 1
                /\ claimed <=> d.current_pick_epoch < d.num_epochs
                                 /\ \E w \in WorkersOf(g) :
                                       /\ procs[w].pc = "claim"
                                       /\ procs'[w].pc # "claim"
                /\ exhausted => /\ d.current_pick_epoch >= d.num_epochs
                                /\ data'[g] = d]_vars

\* C26: the last slot of the last epoch is claimed: current_sketch is back at
\* 0 and current_pick_epoch is num_epochs, two slots an epoch, two epochs
CountersInRangeWitness ==
    \E g \in Streams :
        /\ data[g].num_sketches = 2
        /\ data[g].num_epochs = 2
        /\ data[g].current_pick_epoch = 2
        /\ data[g].current_sketch = 0
        /\ \E w \in WorkersOf(g) : procs[w].pc = "drain"

\* the number of items claimed in the stream, and of items counted as done
Claimed(d) ==
    IF d.num_sketches = -1 THEN d.current_sketch
    ELSE d.current_pick_epoch * d.num_sketches + d.current_sketch

CountedDone(d) ==
    IF d.num_sketches = -1 THEN d.done_in_current_epoch
    ELSE d.current_put_epoch * d.num_sketches + d.done_in_current_epoch

\* the places of a worker that has claimed an item not yet counted as done
Holding ==
    {"compute", "raised", "wait_lock", "wait_read", "wait_test", "park_wait",
     "put", "done_lock", "done"}

\* C27: the number of items claimed and not yet counted as done,
\* (current_pick_epoch * num_sketches + current_sketch) - (current_put_epoch *
\* num_sketches + done_in_current_epoch) with bounded epochs and current_sketch
\* - done_in_current_epoch with unbounded ones, is between 0 and the number of
\* workers of the stream: it is the number of workers that hold an item, each
\* worker holding one item at most.
InFlightBound ==
    \A g \in Streams :
        LET n == Claimed(data[g]) - CountedDone(data[g])
        IN  /\ 0 <= n
            /\ n <= Cardinality(WorkersOf(g))
            /\ n = Cardinality({w \in WorkersOf(g) : procs[w].pc \in Holding})

\* C27: the two workers of a stream each hold an item of the second epoch
InFlightBoundWitness ==
    \E g \in Streams :
        /\ Bounded(g)
        /\ Cardinality(WorkersOf(g)) = 2
        /\ data[g].current_put_epoch = 1
        /\ Claimed(data[g]) - CountedDone(data[g]) = 2

\* the places where a worker sleeps: paused (lines 426-430, and the test of
\* line 304 it comes back to), before another try at its turn (line 400), and
\* for ever once the epochs are exhausted (lines 368-375, the wait for an
\* empty queue included) or die is seen (lines 394-397 and 419-424)
Sleeping(w) ==
    \/ procs[w].pc \in {"loop", "check_die"} /\ shared_data(w).pause
    \/ procs[w].pc \in {"wait_test", "wait_lock"}
    \/ procs[w].pc \in {"drain", "park_epochs", "park_wait", "park_die"}

\* C28: a parked worker never holds the lock: a worker that sleeps paused,
\* sleeps before it tries its turn again, or is parked for ever after the last
\* epoch or after it saw die, is not the holder of the lock of its stream.
ParkedUnlocked ==
    \A w \in Workers : Sleeping(w) => locks[sketcher_of(w)] # w

\* C28: of the two workers of a stopped stream one is parked for having seen
\* die after its item, the other for having seen it while it waited for its
\* turn, and the lock is free
ParkedUnlockedWitness ==
    \E w, v \in Workers :
        /\ sketcher_of(w) = sketcher_of(v)
        /\ procs[w].pc = "park_die"
        /\ procs[v].pc = "park_wait"
        /\ locks[sketcher_of(w)] = 0

\* the worker is blocked in a queue.put() on a full queue
Blocked(w) ==
    /\ procs[w].pc \in {"put", "sentinel"}
    /\ Len(queues[sketcher_of(w)]) >= maxsize(sketcher_of(w))

\* C29: no worker is blocked on an enqueue into a full queue, of an item
\* message or of the terminator of an epoch, while it holds the lock.
NeverBlockedLocked ==
    \A w \in Workers : Blocked(w) => locks[sketcher_of(w)] # w

\* C29, amended: no worker holds the lock when it enqueues an item message,
\* blocked or not; the terminator of an epoch is enqueued with the lock held,
\* so that a worker blocked on a full queue holds the lock exactly when the
\* message it has to enqueue is the terminator; it then keeps the lock, and no
\* other worker of its stream enters a critical section, until a message is
\* dequeued.
ItemPutUnlocked ==
    /\ [](\A w \in Workers :
            /\ procs[w].pc = "put" => locks[sketcher_of(w)] # w
            /\ procs[w].pc = "sentinel" => locks[sketcher_of(w)] = w
            /\ (Blocked(w) /\ locks[sketcher_of(w)] = w)
                  <=> (Blocked(w) /\ procs[w].pc = "sentinel"))
    /\ [][\A w \in Workers :
            (Blocked(w) /\ locks[sketcher_of(w)] = w) =>
               /\ locks'[sketcher_of(w)] = w
               /\ procs'[w] = procs[w]
               /\ \A v \in WorkersOf(sketcher_of(w)) :
                     procs'[v].pc \in Critical => v = w]_vars

\* C29: the queue of a stream of one worker is full of its two items and the
\* worker, the lock in hand, is blocked on the terminator of the epoch
ItemPutUnlockedWitness ==
    \E w \in Workers :
        /\ procs[w].pc = "sentinel"
        /\ Blocked(w)
        /\ locks[sketcher_of(w)] = w
        /\ \A i \in 1 .. Len(queues[sketcher_of(w)]) :
              queues[sketcher_of(w)][i] # None

====
